---- MODULE Spec2Model ----
(***************************************************************************)
(* A model of src/main.py: the Delta Exchange short-straddle bot.          *)
(*                                                                         *)
(*   DeltaExchangeAPI.get_btc_spot_price, get_options_chain,               *)
(*   find_atm_strikes, place_order, place_stop_loss_order                  *)
(*   TradingBot.execute_short_straddle and the ledger active_positions     *)
(*                                                                         *)
(* execute_short_straddle is a coroutine: it gives up control only at its  *)
(* four "await bot.send_message" points, and every exchange call between   *)
(* two awaits is a blocking call.  One action of the model is therefore    *)
(* one stretch of the coroutine between two awaits.                        *)
(*                                                                         *)
(* Python's None is the empty tuple <<>>, a present value x is <<x>>.      *)
(***************************************************************************)
EXTENDS Integers, Sequences, FiniteSets, TLC

\* ------------------------------------------------------------------ bounds
\* longest options chain find_atm_strikes is run on, on its own
MaxChain == 3
\* longest options chain the exchange answers an execution with
MaxListed == 2
\* number of executions that may be triggered (and overlap)
NumExec == 2
\* the clock int(time.time()) runs over 0..MaxTime
MaxTime == 1
\* most items in the params of a request
MaxParams == 2

\* ------------------------------------------------------------ the feed
None == <<>>
Some(x) == <<x>>

\* Decimal strings of the feed are sequences of digits; float() parses them.
RECURSIVE Float(_)
Float(s) == IF s = <<>> THEN 0 ELSE 10 * Float(SubSeq(s, 1, Len(s) - 1)) + s[Len(s)]

Abs(x) == IF x < 0 THEN -x ELSE x

Instrument(sym, strike, type, pid, mark) ==
    [symbol |-> sym, strike_price |-> strike, contract_type |-> type,
     product_id |-> pid, mark_price |-> mark]

\* The instruments the exchange may list for today's expiry.
Instruments ==
    { Instrument("C-BTC-95",  <<9, 5>>,    "call_options", 1, <<1, 2, 0>>),
      Instrument("P-BTC-95",  <<9, 5>>,    "put_options",  2, <<8, 0>>),
      Instrument("C-BTC-105", <<1, 0, 5>>, "call_options", 3, <<4, 1>>),
      Instrument("P-BTC-105", <<1, 0, 5>>, "put_options",  4, <<4, 2>>) }

\* The spot prices the ticker may report: 100 is equally near to 95 and 105.
Spots == {97, 100}

RECURSIVE SeqsUpTo(_, _)
SeqsUpTo(S, n) ==
    IF n = 0 THEN {<<>>}
    ELSE LET shorter == SeqsUpTo(S, n - 1)
         IN shorter \cup {Append(s, x) : s \in {t \in shorter : Len(t) = n - 1}, x \in S}

Chains == SeqsUpTo(Instruments, MaxChain)

\* ------------------------------------------------- find_atm_strikes
\* line 110: diff < min_diff, min_diff starting at float('inf') (None here)
Closer_first(diff, min_diff) == min_diff = None
Closer(diff, min_diff) == min_diff = None \/ diff < min_diff[1]

\* lines 106-112: the first loop, from instrument i on
RECURSIVE ScanMin(_, _, _, _)
ScanMin(spot_price, options_chain, i, acc) ==
    IF i > Len(options_chain) THEN acc
    ELSE LET strike_price == Float(options_chain[i].strike_price)
             diff == Abs(strike_price - spot_price)
         IN IF Closer(diff, acc.min_diff)
            THEN ScanMin(spot_price, options_chain, i + 1,
                         [min_diff |-> Some(diff), atm_strike |-> Some(strike_price)])
            ELSE ScanMin(spot_price, options_chain, i + 1, acc)

\* line 116
AtStrike(option, atm_strike) == Some(Float(option.strike_price)) = atm_strike

\* lines 115-120: the second loop, from instrument i on
RECURSIVE ScanLegs(_, _, _, _)
ScanLegs(options_chain, atm_strike, i, acc) ==
    IF i > Len(options_chain) THEN acc
    ELSE LET option == options_chain[i]
         IN IF AtStrike(option, atm_strike)
            THEN IF option.contract_type = "call_options"
                 THEN ScanLegs(options_chain, atm_strike, i + 1,
                               [acc EXCEPT !.call_option = Some(option)])
                 ELSE IF option.contract_type = "put_options"
                 THEN ScanLegs(options_chain, atm_strike, i + 1,
                               [acc EXCEPT !.put_option = Some(option)])
                 ELSE ScanLegs(options_chain, atm_strike, i + 1, acc)
            ELSE ScanLegs(options_chain, atm_strike, i + 1, acc)

\* lines 100-122; atm_strike is kept in the result to state the claims
find_atm_strikes(spot_price, options_chain) ==
    LET first == ScanMin(spot_price, options_chain, 1,
                         [min_diff |-> None, atm_strike |-> None])
        legs == ScanLegs(options_chain, first.atm_strike, 1,
                         [call_option |-> None, put_option |-> None])
    IN [call_option |-> legs.call_option, put_option |-> legs.put_option,
        atm_strike |-> first.atm_strike]

\* ------------------------------------------------- the exchange's answers
\* What requests.request + raise_for_status + response.json() can give:
\* an exception, or a JSON object with a success flag and a result.
Transport == [kind |-> "raise", success |-> FALSE, result |-> None]
Declined == [kind |-> "json", success |-> FALSE, result |-> None]
Ok(payload) == [kind |-> "json", success |-> TRUE, result |-> Some(payload)]

Raise(msg) == [raised |-> TRUE, error |-> msg, value |-> None]
Return(v) == [raised |-> FALSE, error |-> "", value |-> Some(v)]

\* lines 57-65: the answer is returned, a request failure is logged and re-raised
make_request(answer) ==
    IF answer.kind = "raise" THEN Raise("RequestException") ELSE Return(answer)

BTC == ".DEXBTUSD"
IndexSymbols == {BTC, ".DEXETHUSD"}
\* index listings: the exchange lists each index symbol at most once
Listings == {l \in SeqsUpTo(IndexSymbols, Cardinality(IndexSymbols)) :
                \A i, j \in 1..Len(l) : i # j => l[i] # l[j]}
SpotStrings == {<<9, 7>>, <<1, 0, 0>>}
IndicesAnswers == {Transport, Declined} \cup {Ok(l) : l \in Listings}
TickerAnswers == {Transport, Declined} \cup {Ok([mark_price |-> s]) : s \in SpotStrings}
ChainAnswers == {Transport, Declined} \cup {Ok(c) : c \in SeqsUpTo(Instruments, MaxListed)}

\* lines 72-77: the loop over the listing, from index i on
RECURSIVE ScanIndices(_, _, _)
ScanIndices(listing, i, ticker_answer) ==
    IF i > Len(listing) THEN Raise("BTC spot price not found")
    ELSE IF listing[i] = BTC
         THEN LET ticker_response == make_request(ticker_answer)
              IN IF ticker_response.raised THEN Raise(ticker_response.error)
                 ELSE IF ticker_response.value[1].success
                      THEN Return(Float(ticker_response.value[1].result[1].mark_price))
                      ELSE ScanIndices(listing, i + 1, ticker_answer)
         ELSE ScanIndices(listing, i + 1, ticker_answer)

\* lines 67-81
get_btc_spot_price_default(indices_answer, ticker_answer) ==
    LET response == make_request(indices_answer)
    IN IF response.raised THEN Raise(response.error)
       ELSE IF response.value[1].success
            THEN LET found == ScanIndices(response.value[1].result[1], 1, ticker_answer)
                 IN IF found.raised THEN Return(0) ELSE found
            ELSE Return(0)
get_btc_spot_price(indices_answer, ticker_answer) ==
    LET response == make_request(indices_answer)
    IN IF response.raised THEN Raise(response.error)
       ELSE IF response.value[1].success
            THEN ScanIndices(response.value[1].result[1], 1, ticker_answer)
            ELSE Raise("BTC spot price not found")

\* lines 83-98
get_options_chain(chain_answer) ==
    LET response == make_request(chain_answer)
    IN IF response.raised THEN <<>>
       ELSE IF response.value[1].success THEN response.value[1].result[1] ELSE <<>>

\* lines 126-131
SellOrderData(product_id, side, size) ==
    [product_id |-> product_id, size |-> size, side |-> side,
     order_type |-> "market_order", stop_order_type |-> None,
     stop_price |-> None, reduce_only |-> None, stop_trigger_method |-> None]

\* lines 142-151
StopOrderData(product_id, side, stop_price, size) ==
    [product_id |-> product_id, size |-> size, side |-> side,
     order_type |-> "market_order", stop_order_type |-> Some("stop_loss_order"),
     stop_price |-> Some(stop_price), reduce_only |-> Some("true"),
     stop_trigger_method |-> Some("mark_price")]

\* lines 133-138 and 153-158: the answer, or the exception re-raised
place_order(order_data, answer) == make_request(answer)
place_stop_loss_order(order_data, answer) == make_request(answer)

\* the decimal digits of a natural number
RECURSIVE Digits(_)
Digits(n) == IF n < 10 THEN <<n>> ELSE Append(Digits(n \div 10), n % 10)

\* str() of a float that is a whole number of hundredths h/100: the digits
\* before the point and the digits after it, "150.0", "52.5", "51.25" (the
\* shortest string that reads back as the float, with at least one decimal)
Str(h) ==
    [whole |-> Digits(h \div 100),
     decimals |-> IF h % 100 = 0 THEN <<0>>
                  ELSE IF h % 10 = 0 THEN <<(h % 100) \div 10>>
                  ELSE <<(h % 100) \div 10, h % 10>>]

\* str(premium * 1.25), lines 225-226.  The premium is a whole number here, so
\* the float product is exact: premium * 125 hundredths.
StopPrice_half(premium) == Str(premium * 150)
StopPrice(premium) == Str(premium * 125)

\* lines 57-60: one requests.request call for one order, never repeated; what
\* it adds to the orders the exchange has received
Sent_retry(order_data, answer) ==
    IF answer.kind = "raise"
    THEN <<[order |-> order_data, answer |-> answer], [order |-> order_data, answer |-> answer]>>
    ELSE <<[order |-> order_data, answer |-> answer]>>
Sent(order_data, answer) == <<[order |-> order_data, answer |-> answer]>>

\* line 216
SellsFailed_both(call_answer, put_answer) == ~call_answer.success /\ ~put_answer.success
SellsFailed(call_answer, put_answer) == ~call_answer.success \/ ~put_answer.success

\* ------------------------------------------- what make_request signs
\* A string is the sequence of its pieces, "" is <<>>, + is \o.  A dict is
\* the sequence of its items <<key, value>> in the order it yields them.

\* line 42: "&".join([f"{k}={v}" for k, v in params.items()])
RECURSIVE Join(_)
Join(items) ==
    IF items = <<>> THEN <<>>
    ELSE IF Len(items) = 1 THEN <<items[1][1], "=", items[1][2]>>
    ELSE <<items[1][1], "=", items[1][2], "&">> \o Join(Tail(items))

\* lines 39-42: a params of None and an empty dict are both false
query_string_always(params) ==
    <<"?">> \o (IF params = None THEN <<>> ELSE Join(params[1]))
query_string(params) ==
    IF params # None /\ params[1] # <<>> THEN <<"?">> \o Join(params[1]) ELSE <<>>

\* line 38
Timestamp(time) == <<ToString(time)>>

\* line 44
signature_data(method, timestamp, path, params, data) ==
    method \o timestamp \o path \o query_string(params) \o data

\* lines 45-60: what is signed, and what requests.request is called with
Signed(method, path, params, data, time) ==
    [signature_data |-> signature_data(method, Timestamp(time), path, params, data),
     request |-> [method |-> method, path |-> path, timestamp |-> Timestamp(time),
                  params |-> params, data |-> data]]

\* the calls of make_request: lines 70, 75, 92, 134, 154
Methods == {<<"GET">>, <<"POST">>}
Paths == {<<"/v2/tickers">>, <<"/v2/orders">>}
Bodies == {<<>>, <<"{order_data}">>}
ParamItems ==
    { <<"contract_types", "call_options,put_options">>,
      <<"underlying_asset_symbols", "BTC">>,
      <<"expiry_date", "04-11-2026">>,
      <<"expiry_date", "05-11-2026">> }
\* a dict has each key once
ParamDicts ==
    {d \in SeqsUpTo(ParamItems, MaxParams) :
        \A i, j \in 1..Len(d) : d[i][1] = d[j][1] => i = j}
Calls ==
    [method : Methods, path : Paths, params : {None} \cup {Some(d) : d \in ParamDicts},
     data : Bodies, time : 0..MaxTime]

\* ------------------------------------------------------------- the state
VARIABLES
    pc,               \* where each execution stands: idle, an await point, done
    chat_id,          \* the session that triggered it (query.message.chat_id)
    spot_price,       \* locals of execute_short_straddle ...
    call_option,
    put_option,
    call_order,
    put_order,
    result,           \* the report it returned to button_callback_handler
    active_positions, \* the ledger TradingBot.active_positions
    now,              \* int(time.time())
    orders,           \* per execution: the orders it submitted, with the answers
    spot_input,       \* per execution: what the spot price queries met
    chain_input,      \* per execution: what the options-chain query met
    raised,           \* per execution: the exception its handler caught
    atm_legs,         \* per execution: the legs the ATM selection returned
    atm_pair,         \* per execution: the call and the put it selected to trade
    position_id,      \* per execution: the ledger key it wrote ...
    written,          \* ... and the record it wrote there
    overlapped,       \* pairs of executions that were in flight together
    atm_spot,         \* find_atm_strikes on its own: the inputs ...
    atm_chain,
    atm_out,          \* ... and what it returned
    sig_in,           \* make_request on its own: its arguments ...
    sig_out           \* ... and what it signed and handed to requests.request

exec_vars == <<pc, chat_id, spot_price, call_option, put_option, call_order,
               put_order, result, active_positions, now, orders, spot_input,
               chain_input, raised, atm_legs, atm_pair, position_id, written,
               overlapped>>
atm_vars == <<atm_spot, atm_chain, atm_out>>
sign_vars == <<sig_in, sig_out>>
vars == <<exec_vars, atm_vars, sign_vars>>

Execs == 1..NumExec
ChatIds == {7, 8}
InFlight(e) == pc[e] \notin {"idle", "done"}

\* ----------------------------------------------------------- the reports
NoReport ==
    [kind |-> "none", mark |-> "", lines |-> {}, strike |-> None, premium |-> None,
     call_order_id |-> None, put_order_id |-> None, detail |-> ""]
\* line 181
NoOptionsReport ==
    [NoReport EXCEPT !.kind = "no_options", !.mark = "cross",
                     !.lines = {"No options found for today's expiry"}]
\* line 187
NoAtmReport ==
    [NoReport EXCEPT !.kind = "no_atm", !.mark = "cross",
                     !.lines = {"Could not find ATM call and put options"}]
\* line 217
SellFailedReport ==
    [NoReport EXCEPT !.kind = "sell_failed", !.mark = "cross",
                     !.lines = {"Failed to execute short straddle orders"}]
\* line 273
ErrorReport(msg) ==
    [NoReport EXCEPT !.kind = "error", !.mark = "cross",
                     !.lines = {"Error executing short straddle"}, !.detail = msg]
\* an exception that leaves execute_short_straddle: no report at all
Escaped(msg) == [NoReport EXCEPT !.kind = "exception", !.detail = msg]
\* lines 258-267
SummaryReport(call_strike, total_premium, call_id, put_id) ==
    [kind |-> "summary", mark |-> "check",
     lines |-> {"Short Straddle Executed Successfully", "Strike Price",
                "Premium Collected", "Call Order ID", "Put Order ID",
                "Stop Loss Orders Placed", "Expiry",
                "WARNING: This is a high-risk strategy with unlimited loss potential"},
     strike |-> Some(call_strike), premium |-> Some(total_premium),
     call_order_id |-> Some(call_id), put_order_id |-> Some(put_id), detail |-> ""]

\* lines 271-273: every Exception raised in the body is caught and reported
Catch_reraise(msg) == Escaped(msg)
Catch(msg) == ErrorReport(msg)

\* The exchange gives each accepted order an id of its own: the n-th order of
\* execution e.
OrderId(e, n) == 4 * (e - 1) + n
Accept(e, n) == Ok([id |-> OrderId(e, n)])
OrderAnswers(e, n) == {Transport, Declined, Accept(e, n)}

\* line 246: f"{chat_id}_{int(time.time())}", the two integers in decimal with
\* "_" between them: one string per pair
PositionId(chat, time) == <<chat, time>>

\* lines 247-256
PositionRecord_swapped(call_opt, put_opt, c_order, p_order, c_sl, p_sl, total_premium, time) ==
    [call_option |-> call_opt, put_option |-> put_opt,
     call_order_id |-> p_order.result[1].id,
     put_order_id |-> c_order.result[1].id,
     call_sl_order_id |-> IF c_sl.success THEN Some(c_sl.result[1].id) ELSE None,
     put_sl_order_id |-> IF p_sl.success THEN Some(p_sl.result[1].id) ELSE None,
     premium_collected |-> total_premium,
     timestamp |-> time]
PositionRecord(call_opt, put_opt, c_order, p_order, c_sl, p_sl, total_premium, time) ==
    [call_option |-> call_opt, put_option |-> put_opt,
     call_order_id |-> c_order.result[1].id,
     put_order_id |-> p_order.result[1].id,
     call_sl_order_id |-> IF c_sl.success THEN Some(c_sl.result[1].id) ELSE None,
     put_sl_order_id |-> IF p_sl.success THEN Some(p_sl.result[1].id) ELSE None,
     premium_collected |-> total_premium,
     timestamp |-> time]

\* active_positions[position_id] = record
Insert(ledger, key, record) ==
    [k \in DOMAIN ledger \cup {key} |-> IF k = key THEN record ELSE ledger[k]]

\* ------------------------------------------------- what the queries met
AnswerKind(answer) ==
    IF answer.kind = "raise" THEN "raise" ELSE IF answer.success THEN "ok" ELSE "declined"

Listed(sym, listing) == \E i \in 1..Len(listing) : listing[i] = sym

\* the index listing's answer, whether it lists BTC, and the ticker's answer
\* (a ticker that is never asked gives no answer)
SpotInput(indices_answer, ticker_answer) ==
    LET listed == indices_answer.success /\ Listed(BTC, indices_answer.result[1])
    IN [indices |-> AnswerKind(indices_answer), btc_listed |-> listed,
        ticker |-> IF listed THEN AnswerKind(ticker_answer) ELSE "unasked"]
NoSpotInput == [indices |-> "unasked", btc_listed |-> FALSE, ticker |-> "unasked"]

ChainInput(chain_answer) ==
    IF chain_answer.success /\ chain_answer.result[1] = <<>> THEN "empty"
    ELSE AnswerKind(chain_answer)

\* ------------------------------------------------------------ the actions
Init ==
    /\ pc = [e \in Execs |-> "idle"]
    /\ chat_id = [e \in Execs |-> 0]
    /\ spot_price = [e \in Execs |-> None]
    /\ call_option = [e \in Execs |-> None]
    /\ put_option = [e \in Execs |-> None]
    /\ call_order = [e \in Execs |-> None]
    /\ put_order = [e \in Execs |-> None]
    /\ result = [e \in Execs |-> NoReport]
    /\ active_positions = <<>>
    /\ now = 0
    /\ orders = [e \in Execs |-> <<>>]
    /\ spot_input = [e \in Execs |-> NoSpotInput]
    /\ chain_input = [e \in Execs |-> "unasked"]
    /\ raised = [e \in Execs |-> ""]
    /\ atm_legs = [e \in Execs |-> "unselected"]
    /\ atm_pair = [e \in Execs |-> None]
    /\ position_id = [e \in Execs |-> None]
    /\ written = [e \in Execs |-> None]
    /\ overlapped = {}
    /\ atm_spot = 0
    /\ atm_chain = <<>>
    /\ atm_out = None
    /\ sig_in = None
    /\ sig_out = None

\* return (or an exception leaving the coroutine): the locals are gone
Finish(e, report, exception) ==
    /\ pc' = [pc EXCEPT ![e] = "done"]
    /\ result' = [result EXCEPT ![e] = report]
    /\ raised' = [raised EXCEPT ![e] = exception]
    /\ spot_price' = [spot_price EXCEPT ![e] = None]
    /\ call_option' = [call_option EXCEPT ![e] = None]
    /\ put_option' = [put_option EXCEPT ![e] = None]
    /\ call_order' = [call_order EXCEPT ![e] = None]
    /\ put_order' = [put_order EXCEPT ![e] = None]

\* an exception raised in the try block, lines 171-273
Fail(e, msg) == Finish(e, Catch(msg), msg)

\* the coroutine stops at its next await
Await(e, at) ==
    /\ pc' = [pc EXCEPT ![e] = at]
    /\ UNCHANGED <<result, raised>>

\* button_callback_handler lines 315-318 and execute_short_straddle lines
\* 171-174: the spot price, up to the first status message
Trigger(e) ==
    /\ pc[e] = "idle"
    /\ \E chat \in ChatIds, indices_answer \in IndicesAnswers,
          ticker_answer \in TickerAnswers :
          LET spot == get_btc_spot_price(indices_answer, ticker_answer)
          IN /\ chat_id' = [chat_id EXCEPT ![e] = chat]
             /\ spot_input' = [spot_input EXCEPT ![e] =
                                  SpotInput(indices_answer, ticker_answer)]
             /\ IF spot.raised
                THEN /\ Fail(e, spot.error)
                     /\ UNCHANGED overlapped
                ELSE /\ Await(e, "send_spot")
                     /\ spot_price' = [spot_price EXCEPT ![e] = spot.value]
                     /\ overlapped' = overlapped \cup
                            {{e, f} : f \in {g \in Execs : g # e /\ InFlight(g)}}
                     /\ UNCHANGED <<call_option, put_option, call_order, put_order>>
    /\ UNCHANGED <<active_positions, now, orders, chain_input, atm_legs, atm_pair,
                   position_id, written, atm_vars, sign_vars>>

\* lines 180-190: what the chain and the selection lead to, a report to
\* return or the two legs to trade
Selection_unchecked(spot, chain) ==
    LET atm == find_atm_strikes(spot, chain)
    IN IF atm.call_option = None \/ atm.put_option = None
       THEN [report |-> Some(NoAtmReport), atm |-> Some(atm)]
       ELSE [report |-> None, atm |-> Some(atm)]
Selection(spot, chain) ==
    IF chain = <<>>
    THEN [report |-> Some(NoOptionsReport), atm |-> None]
    ELSE LET atm == find_atm_strikes(spot, chain)
         IN IF atm.call_option = None \/ atm.put_option = None
            THEN [report |-> Some(NoAtmReport), atm |-> Some(atm)]
            ELSE [report |-> None, atm |-> Some(atm)]

Legs(atm) ==
    IF atm = None THEN "unselected"
    ELSE IF atm[1].call_option # None /\ atm[1].put_option # None THEN "both"
    ELSE IF atm[1].call_option # None THEN "call_only"
    ELSE IF atm[1].put_option # None THEN "put_only"
    ELSE "neither"

\* lines 174-192: the first status message is through (or failed); the chain,
\* the ATM selection, up to the second status message
SelectStrikes(e) ==
    /\ pc[e] = "send_spot"
    /\ \E sent \in BOOLEAN, chain_answer \in ChainAnswers :
          IF ~sent
          THEN /\ Fail(e, "send_message")
               /\ UNCHANGED <<chain_input, atm_legs, atm_pair>>
          ELSE LET options_chain == get_options_chain(chain_answer)
                   selected == Selection(spot_price[e][1], options_chain)
               IN /\ chain_input' = [chain_input EXCEPT ![e] = ChainInput(chain_answer)]
                  /\ atm_legs' = [atm_legs EXCEPT ![e] = Legs(selected.atm)]
                  /\ atm_pair' = [atm_pair EXCEPT ![e] =
                                      IF selected.report # None THEN None
                                      ELSE Some([call_option |-> selected.atm[1].call_option[1],
                                                 put_option |-> selected.atm[1].put_option[1]])]
                  /\ IF selected.report # None
                     THEN Finish(e, selected.report[1], "")
                     ELSE /\ Await(e, "send_atm")
                          /\ call_option' = [call_option EXCEPT ![e] =
                                                selected.atm[1].call_option]
                          /\ put_option' = [put_option EXCEPT ![e] =
                                               selected.atm[1].put_option]
                          /\ UNCHANGED <<spot_price, call_order, put_order>>
    /\ UNCHANGED <<chat_id, active_positions, now, orders, spot_input, position_id,
                   written, overlapped, atm_vars, sign_vars>>

\* lines 192-200: the second status message is through (or failed), up to the
\* third
AnnounceExecution(e) ==
    /\ pc[e] = "send_atm"
    /\ \E sent \in BOOLEAN :
          IF ~sent
          THEN Fail(e, "send_message")
          ELSE /\ Await(e, "send_exec")
               /\ UNCHANGED <<spot_price, call_option, put_option, call_order, put_order>>
    /\ UNCHANGED <<chat_id, active_positions, now, orders, spot_input, chain_input,
                   atm_legs, atm_pair, position_id, written, overlapped, atm_vars,
                   sign_vars>>

\* lines 200-228: the third status message is through (or failed); the two
\* sell orders, the check of their answers, up to the fourth status message
PlaceSells(e) ==
    /\ pc[e] = "send_exec"
    /\ \E sent \in BOOLEAN, call_answer \in OrderAnswers(e, 1),
          put_answer \in OrderAnswers(e, 2) :
          IF ~sent
          THEN /\ Fail(e, "send_message")
               /\ UNCHANGED orders
          ELSE LET call_data == SellOrderData(call_option[e][1].product_id, "sell", 1)
                   put_data == SellOrderData(put_option[e][1].product_id, "sell", 1)
                   call_placed == place_order(call_data, call_answer)
                   put_placed == place_order(put_data, put_answer)
                   one == orders[e] \o Sent(call_data, call_answer)
                   both == one \o Sent(put_data, put_answer)
               IN IF call_placed.raised
                  THEN /\ Fail(e, call_placed.error)
                       /\ orders' = [orders EXCEPT ![e] = one]
                  ELSE IF put_placed.raised
                  THEN /\ Fail(e, put_placed.error)
                       /\ orders' = [orders EXCEPT ![e] = both]
                  ELSE /\ orders' = [orders EXCEPT ![e] = both]
                       /\ IF SellsFailed(call_placed.value[1], put_placed.value[1])
                          THEN Finish(e, SellFailedReport, "")
                          ELSE /\ Await(e, "send_sl")
                               /\ call_order' = [call_order EXCEPT ![e] = call_placed.value]
                               /\ put_order' = [put_order EXCEPT ![e] = put_placed.value]
                               /\ UNCHANGED <<spot_price, call_option, put_option>>
    /\ UNCHANGED <<chat_id, active_positions, now, spot_input, chain_input,
                   atm_legs, atm_pair, position_id, written, overlapped, atm_vars,
                   sign_vars>>

\* lines 219-269: the fourth status message is through (or failed); the two
\* stop-loss orders, the ledger entry and the summary
PlaceStops(e) ==
    /\ pc[e] = "send_sl"
    /\ \E sent \in BOOLEAN, call_sl_answer \in OrderAnswers(e, 3),
          put_sl_answer \in OrderAnswers(e, 4) :
          IF ~sent
          THEN /\ Fail(e, "send_message")
               /\ UNCHANGED <<orders, active_positions, position_id, written>>
          ELSE LET call_premium == Float(call_option[e][1].mark_price)
                   put_premium == Float(put_option[e][1].mark_price)
                   total_premium == call_premium + put_premium
                   call_sl_data == StopOrderData(call_option[e][1].product_id, "buy",
                                                 StopPrice(call_premium), 1)
                   put_sl_data == StopOrderData(put_option[e][1].product_id, "buy",
                                                StopPrice(put_premium), 1)
                   call_sl == place_stop_loss_order(call_sl_data, call_sl_answer)
                   put_sl == place_stop_loss_order(put_sl_data, put_sl_answer)
                   one == orders[e] \o Sent(call_sl_data, call_sl_answer)
                   both == one \o Sent(put_sl_data, put_sl_answer)
                   key == PositionId(chat_id[e], now)
                   record(c_sl, p_sl) ==
                       PositionRecord(call_option[e][1], put_option[e][1],
                                      call_order[e][1], put_order[e][1],
                                      c_sl, p_sl, total_premium, now)
               IN IF call_sl.raised
                  THEN /\ Fail(e, call_sl.error)
                       /\ orders' = [orders EXCEPT ![e] = one]
                       /\ UNCHANGED <<active_positions, position_id, written>>
                  ELSE IF put_sl.raised
                  THEN /\ Fail(e, put_sl.error)
                       /\ orders' = [orders EXCEPT ![e] = both]
                       /\ UNCHANGED <<active_positions, position_id, written>>
                  ELSE /\ orders' = [orders EXCEPT ![e] = both]
                       /\ position_id' = [position_id EXCEPT ![e] = Some(key)]
                       /\ written' = [written EXCEPT ![e] =
                                          Some(record(call_sl.value[1], put_sl.value[1]))]
                       /\ active_positions' =
                              Insert(active_positions, key,
                                     record(call_sl.value[1], put_sl.value[1]))
                       /\ Finish(e, SummaryReport(Float(call_option[e][1].strike_price),
                                                   total_premium,
                                                   call_order[e][1].result[1].id,
                                                   put_order[e][1].result[1].id), "")
    /\ UNCHANGED <<chat_id, now, spot_input, chain_input, atm_legs, atm_pair, overlapped,
                   atm_vars, sign_vars>>

\* a second passes on the clock behind time.time()
Tick ==
    /\ now < MaxTime
    /\ now' = now + 1
    /\ UNCHANGED <<pc, chat_id, spot_price, call_option, put_option, call_order,
                   put_order, result, active_positions, orders, spot_input,
                   chain_input, raised, atm_legs, atm_pair, position_id, written,
                   overlapped, atm_vars, sign_vars>>

\* button_callback_handler lines 325-341, 'check_positions': the ledger is
\* read into the text of a message; nothing of the program changes
CheckPositions == UNCHANGED vars

\* the event loop resumes execution e at the await it stands at
Resume(e) ==
    \/ SelectStrikes(e)
    \/ AnnounceExecution(e)
    \/ PlaceSells(e)
    \/ PlaceStops(e)

Next ==
    \/ \E e \in Execs : Trigger(e)
    \/ \E e \in Execs : Resume(e)
    \/ CheckPositions
    \/ Tick

Spec == Init /\ [][Next]_vars

\* The awaited sends and the exchange requests all end (timeouts, line 59), and
\* the event loop resumes every coroutine that is ready.
FairSpec == Spec /\ \A e \in Execs : WF_vars(Resume(e))

\* ------------------------------------------- find_atm_strikes on its own
InitATM ==
    /\ pc = [e \in Execs |-> "idle"]
    /\ chat_id = [e \in Execs |-> 0]
    /\ spot_price = [e \in Execs |-> None]
    /\ call_option = [e \in Execs |-> None]
    /\ put_option = [e \in Execs |-> None]
    /\ call_order = [e \in Execs |-> None]
    /\ put_order = [e \in Execs |-> None]
    /\ result = [e \in Execs |-> NoReport]
    /\ active_positions = <<>>
    /\ now = 0
    /\ orders = [e \in Execs |-> <<>>]
    /\ spot_input = [e \in Execs |-> NoSpotInput]
    /\ chain_input = [e \in Execs |-> "unasked"]
    /\ raised = [e \in Execs |-> ""]
    /\ atm_legs = [e \in Execs |-> "unselected"]
    /\ atm_pair = [e \in Execs |-> None]
    /\ position_id = [e \in Execs |-> None]
    /\ written = [e \in Execs |-> None]
    /\ overlapped = {}
    /\ atm_spot \in Spots
    /\ atm_chain \in Chains
    /\ atm_out = None
    /\ sig_in = None
    /\ sig_out = None

SelectATM ==
    /\ atm_out = None
    /\ atm_out' = Some(find_atm_strikes(atm_spot, atm_chain))
    /\ UNCHANGED <<exec_vars, atm_spot, atm_chain, sign_vars>>

NextATM == SelectATM

SpecATM == InitATM /\ [][NextATM]_vars

\* ---------------------------------------------- make_request on its own
InitSign ==
    /\ pc = [e \in Execs |-> "idle"]
    /\ chat_id = [e \in Execs |-> 0]
    /\ spot_price = [e \in Execs |-> None]
    /\ call_option = [e \in Execs |-> None]
    /\ put_option = [e \in Execs |-> None]
    /\ call_order = [e \in Execs |-> None]
    /\ put_order = [e \in Execs |-> None]
    /\ result = [e \in Execs |-> NoReport]
    /\ active_positions = <<>>
    /\ now = 0
    /\ orders = [e \in Execs |-> <<>>]
    /\ spot_input = [e \in Execs |-> NoSpotInput]
    /\ chain_input = [e \in Execs |-> "unasked"]
    /\ raised = [e \in Execs |-> ""]
    /\ atm_legs = [e \in Execs |-> "unselected"]
    /\ atm_pair = [e \in Execs |-> None]
    /\ position_id = [e \in Execs |-> None]
    /\ written = [e \in Execs |-> None]
    /\ overlapped = {}
    /\ atm_spot = 0
    /\ atm_chain = <<>>
    /\ atm_out = None
    /\ sig_in \in {Some(c) : c \in Calls}
    /\ sig_out = None

Sign ==
    /\ sig_in # None
    /\ sig_out = None
    /\ sig_out' = Some(Signed(sig_in[1].method, sig_in[1].path, sig_in[1].params,
                              sig_in[1].data, sig_in[1].time))
    /\ UNCHANGED <<exec_vars, atm_vars, sig_in>>

NextSign == Sign

SpecSign == InitSign /\ [][NextSign]_vars

\* ------------------------------------------------------------ the claims
Done(e) == pc[e] = "done"
Answered(entry) == entry.answer.success
IsSell(entry) == entry.order.side = "sell" /\ entry.order.stop_order_type = None
IsStop(entry) == entry.order.stop_order_type = Some("stop_loss_order")
BothSellsSucceeded(e) ==
    /\ Len(orders[e]) >= 2
    /\ IsSell(orders[e][1]) /\ Answered(orders[e][1])
    /\ IsSell(orders[e][2]) /\ Answered(orders[e][2])
StopsOf(e) == {i \in 1..Len(orders[e]) : IsStop(orders[e][i])}
FailureKinds == {"sell_failed", "error"}
SaysStopsPlaced(report) == "Stop Loss Orders Placed" \in report.lines
WarnsUnprotected(report) == "WARNING: stop-loss protection may be missing" \in report.lines

\* C1: when both sells succeeded and every stop-loss submission of the
\* execution failed (answered without success, or the request raised), the
\* execution has inserted a record with both stop order ids absent and has
\* returned the success summary.
C1_PartialCompletion ==
    \A e \in Execs :
        (Done(e) /\ BothSellsSucceeded(e) /\ StopsOf(e) # {}
           /\ \A i \in StopsOf(e) : ~Answered(orders[e][i]))
        => /\ result[e].kind = "summary"
           /\ written[e] # None
           /\ written[e][1].call_sl_order_id = None
           /\ written[e][1].put_sl_order_id = None

\* C2: when the record an execution inserted has an absent call or put stop
\* order id, its report does not say that stop-loss orders were placed and
\* warns that protection may be missing.
C2_NoFalseProtection ==
    \A e \in Execs :
        (Done(e) /\ written[e] # None
           /\ (written[e][1].call_sl_order_id = None \/ written[e][1].put_sl_order_id = None))
        => /\ ~SaysStopsPlaced(result[e])
           /\ WarnsUnprotected(result[e])

\* C3: an execution submits no order after a sell of its own that did not
\* report success, and it ends with a failure report.
C3_SellFailureAborts ==
    \A e \in Execs :
        \A i \in 1..Len(orders[e]) :
            (IsSell(orders[e][i]) /\ ~Answered(orders[e][i]))
            => /\ Len(orders[e]) = i
               /\ Done(e) => result[e].kind \in FailureKinds

\* C4: two executions that were in flight together and both returned the
\* summary used different ledger keys, and the ledger holds the record of each.
C4_ConcurrentRecords ==
    \A e, f \in Execs :
        (e # f /\ {e, f} \in overlapped
           /\ result[e].kind = "summary" /\ result[f].kind = "summary")
        => /\ position_id[e] # position_id[f]
           /\ active_positions[position_id[e][1]] = written[e][1]
           /\ active_positions[position_id[f][1]] = written[f][1]
           /\ Cardinality(DOMAIN active_positions) >= 2

LacksLeg(e) == atm_legs[e] \in {"call_only", "put_only", "neither"}

\* C5: an execution whose chain is empty returns the no-options report, one
\* whose ATM selection lacks a leg returns the no-ATM report; neither submits
\* an order nor writes to the ledger.
C5_DeclineBeforePlacement ==
    \A e \in Execs :
        /\ chain_input[e] = "empty"
           => Done(e) /\ result[e] = NoOptionsReport /\ orders[e] = <<>> /\ written[e] = None
        /\ LacksLeg(e)
           => Done(e) /\ result[e] = NoAtmReport /\ orders[e] = <<>> /\ written[e] = None

C5_Witness ==
    /\ \E e \in Execs : Done(e) /\ chain_input[e] = "empty"
    /\ \E e \in Execs : Done(e) /\ atm_legs[e] = "call_only"

\* C6: an execution whose options-chain query failed at the transport level
\* does not end with the report an empty chain gives.
C6_TransportDistinct ==
    \A e \in Execs :
        (Done(e) /\ chain_input[e] = "raise") => result[e] # NoOptionsReport

ReportKinds == {"no_options", "no_atm", "sell_failed", "error", "summary"}

\* C7: every triggered execution ends and returns a report; no exception
\* leaves it, and a caught exception is returned as a failure message with
\* the error prefix.
C7_AlwaysReports ==
    /\ \A e \in Execs : (pc[e] # "idle") ~> Done(e)
    /\ [](\A e \in Execs :
            Done(e) => /\ result[e].kind \in ReportKinds
                       /\ raised[e] # "" => /\ result[e].kind = "error"
                                            /\ result[e].mark = "cross"
                                            /\ result[e].detail = raised[e])

C7_Witness ==
    /\ \E e \in Execs : Done(e) /\ raised[e] = "send_message" /\ Len(orders[e]) = 2
    /\ \E e \in Execs : Done(e) /\ raised[e] = "RequestException" /\ Len(orders[e]) = 3

SpotFailed(e) ==
    /\ spot_input[e].indices # "unasked"
    /\ \/ spot_input[e].indices # "ok"
       \/ ~spot_input[e].btc_listed
       \/ spot_input[e].ticker # "ok"

\* C10: when the index listing or the ticker request fails, the listing lacks
\* the BTC index, or the ticker does not report success, the execution ends
\* with a failure report, has not queried the chain, has submitted no order
\* and has written nothing to the ledger.
C10_SpotFailureFatal ==
    \A e \in Execs :
        SpotFailed(e)
        => /\ Done(e)
           /\ result[e].kind = "error"
           /\ raised[e] \in {"RequestException", "BTC spot price not found"}
           /\ chain_input[e] = "unasked"
           /\ orders[e] = <<>>
           /\ written[e] = None

C10_Witness ==
    /\ \E e \in Execs : Done(e) /\ spot_input[e].ticker = "declined"
    /\ \E e \in Execs : Done(e) /\ spot_input[e].indices = "ok" /\ ~spot_input[e].btc_listed

\* --- find_atm_strikes, under SpecATM
StrikeOf(option) == Float(option.strike_price)
Distance(option) == Abs(StrikeOf(option) - atm_spot)
Listed_at(type, strike) ==
    \E i \in 1..Len(atm_chain) :
        atm_chain[i].contract_type = type /\ Some(StrikeOf(atm_chain[i])) = strike
Nearest(option) == \A i \in 1..Len(atm_chain) : Distance(option) <= Distance(atm_chain[i])
Tie ==
    \E i, j \in 1..Len(atm_chain) :
        /\ StrikeOf(atm_chain[i]) < StrikeOf(atm_chain[j])
        /\ Nearest(atm_chain[i]) /\ Nearest(atm_chain[j])
LowerTied ==
    CHOOSE k \in {StrikeOf(atm_chain[i]) : i \in {j \in 1..Len(atm_chain) : Nearest(atm_chain[j])}} :
        \A i \in 1..Len(atm_chain) : Nearest(atm_chain[i]) => k <= StrikeOf(atm_chain[i])

\* C8: when two different strikes are equally near to the spot, both legs
\* find_atm_strikes returns are of the lower of the two strikes.
C8_TieBreakLower ==
    (atm_out # None /\ Tie)
    => /\ atm_out[1].atm_strike = Some(LowerTied)
       /\ atm_out[1].call_option # None => StrikeOf(atm_out[1].call_option[1]) = LowerTied
       /\ atm_out[1].put_option # None => StrikeOf(atm_out[1].put_option[1]) = LowerTied

\* C9: on a non-empty chain, each leg find_atm_strikes returns is an
\* instrument of the chain, of its contract type, at a strike nearest to the
\* spot; both legs have the selected strike; and a leg is absent exactly when
\* the chain has no instrument of that type at the selected strike.
C9_AtmSelection ==
    (atm_out # None /\ atm_chain # <<>>)
    => LET call == atm_out[1].call_option
           put == atm_out[1].put_option
           atm_strike == atm_out[1].atm_strike
           InChain(leg) == \E i \in 1..Len(atm_chain) : atm_chain[i] = leg
       IN /\ atm_strike # None
          /\ \A i \in 1..Len(atm_chain) : Abs(atm_strike[1] - atm_spot) <= Distance(atm_chain[i])
          /\ call # None => /\ InChain(call[1])
                            /\ call[1].contract_type = "call_options"
                            /\ Nearest(call[1])
                            /\ Some(StrikeOf(call[1])) = atm_strike
          /\ put # None => /\ InChain(put[1])
                           /\ put[1].contract_type = "put_options"
                           /\ Nearest(put[1])
                           /\ Some(StrikeOf(put[1])) = atm_strike
          /\ (call = None) <=> ~Listed_at("call_options", atm_strike)
          /\ (put = None) <=> ~Listed_at("put_options", atm_strike)

C9_Witness ==
    /\ atm_out # None
    /\ Len(atm_chain) = MaxChain
    /\ atm_out[1].call_option # None
    /\ atm_out[1].put_option = None
    /\ \E i \in 1..Len(atm_chain) : ~Nearest(atm_chain[i])

\* --- the stop-loss orders, under Spec
\* the number of hundredths a decimal string of at most two decimals stands for
Hundredths(price) ==
    100 * Float(price.whole)
      + (IF Len(price.decimals) = 1 THEN 10 * price.decimals[1]
         ELSE 10 * price.decimals[1] + price.decimals[2])

\* the leg of the selection that the i-th order of an execution is for: the
\* call for the first sell and the first stop, the put for the second of each
LegOf(e, i) == IF i \in {1, 3} THEN atm_pair[e][1].call_option ELSE atm_pair[e][1].put_option
OtherLegOf(e, i) == IF i \in {1, 3} THEN atm_pair[e][1].put_option ELSE atm_pair[e][1].call_option

\* C11: the trigger price sent with the call stop order is the selected
\* call's mark price times 1.25, the one sent with the put stop order is the
\* selected put's mark price times 1.25, and each stop order carries the
\* product id of the leg whose mark price it was computed from.
C11_StopArithmetic ==
    \A e \in Execs :
        \A i \in StopsOf(e) :
            /\ atm_pair[e] # None
            /\ orders[e][i].order.stop_price # None
            /\ 100 * Hundredths(orders[e][i].order.stop_price[1])
                 = 125 * 100 * Float(LegOf(e, i).mark_price)
            /\ orders[e][i].order.product_id = LegOf(e, i).product_id
            /\ orders[e][i].order.product_id # OtherLegOf(e, i).product_id

C11_Witness ==
    /\ \E e \in Execs :
          /\ Len(orders[e]) = 4 /\ StopsOf(e) = {3, 4}
          /\ Float(atm_pair[e][1].call_option.mark_price) = 120
          /\ Hundredths(orders[e][3].order.stop_price[1]) = 15000
          /\ orders[e][3].order.stop_price[1].decimals = <<0>>
    /\ \E e \in Execs :
          /\ Len(orders[e]) = 4 /\ StopsOf(e) = {3, 4}
          /\ orders[e][3].order.stop_price[1] = [whole |-> <<5, 1>>, decimals |-> <<2, 5>>]
          /\ orders[e][4].order.stop_price[1] = [whole |-> <<5, 2>>, decimals |-> <<5>>]

\* --- make_request, under SpecSign
\* the items handed to requests.request as params=
Transmitted ==
    IF sig_out[1].request.params = None THEN <<>> ELSE sig_out[1].request.params[1]

\* C12: the signed string is method + timestamp + path + query + body, where
\* the query is empty (no '?') when the params are absent or empty, and else
\* is '?' followed by the key=value pairs, joined by '&', in the order in
\* which the params are handed to the transport.
C12_SigningString ==
    sig_out # None
    => LET signed == sig_out[1].signature_data
           request == sig_out[1].request
           n == Len(Transmitted)
           body == Len(request.data)
           At(i) == 4 * i + 1
       IN /\ signed[1] = request.method[1]
          /\ signed[2] = request.timestamp[1]
          /\ signed[3] = request.path[1]
          /\ SubSeq(signed, Len(signed) - body + 1, Len(signed)) = request.data
          /\ n = 0 => /\ Len(signed) = 3 + body
                      /\ \A i \in 1..Len(signed) : signed[i] # "?"
          /\ n > 0 => /\ Len(signed) = 3 + 4 * n + body
                      /\ signed[4] = "?"
                      /\ \A i \in 1..n :
                            /\ signed[At(i)] = Transmitted[i][1]
                            /\ signed[At(i) + 1] = "="
                            /\ signed[At(i) + 2] = Transmitted[i][2]
                            /\ i < n => signed[At(i) + 3] = "&"

C12_Witness ==
    /\ sig_out # None
    /\ Len(Transmitted) = MaxParams
    /\ Transmitted[1][1] = "expiry_date"
    /\ sig_out[1].request.data # <<>>

\* C13: an execution whose two sells both reported success has, when it
\* ends, submitted the call stop-loss order and then the put stop-loss order,
\* whatever the call stop-loss submission came to.
C13_BothStopsAttempted ==
    \A e \in Execs :
        (Done(e) /\ BothSellsSucceeded(e))
        => /\ Len(orders[e]) = 4
           /\ StopsOf(e) = {3, 4}
           /\ orders[e][3].order.product_id = LegOf(e, 3).product_id
           /\ orders[e][4].order.product_id = LegOf(e, 4).product_id

\* the exchange gave executions e and f the same answer to every request
\* that both of them made
SameAnswers(e, f) ==
    /\ \/ spot_input[e] = NoSpotInput \/ spot_input[f] = NoSpotInput
       \/ spot_input[e] = spot_input[f]
    /\ \/ chain_input[e] = "unasked" \/ chain_input[f] = "unasked"
       \/ chain_input[e] = chain_input[f]
    /\ \/ atm_legs[e] = "unselected" \/ atm_legs[f] = "unselected"
       \/ (atm_legs[e] = atm_legs[f] /\ atm_pair[e] = atm_pair[f])
    /\ \A i \in 1..Len(orders[e]) :
          i <= Len(orders[f])
          => AnswerKind(orders[e][i].answer) = AnswerKind(orders[f][i].answer)

\* the orders submitted, whether a record was written, the kind of report
SameOutcome(e, f) ==
    /\ Len(orders[e]) = Len(orders[f])
    /\ \A i \in 1..Len(orders[e]) :
          i <= Len(orders[f]) => IsStop(orders[e][i]) = IsStop(orders[f][i])
    /\ (written[e] = None) = (written[f] = None)
    /\ result[e].kind = result[f].kind

\* C14: two executions that were given the same exchange answers have
\* submitted the same orders, written a record or not alike, and returned the
\* same kind of report, whatever became of their status messages; and an
\* execution whose status message failed after both sells succeeded has
\* submitted its stop-loss orders and written its record.
C14_NotificationIndependent ==
    /\ \A e, f \in Execs :
          (Done(e) /\ Done(f) /\ SameAnswers(e, f)) => SameOutcome(e, f)
    /\ \A e \in Execs :
          (Done(e) /\ BothSellsSucceeded(e) /\ raised[e] = "send_message")
          => /\ StopsOf(e) # {}
             /\ written[e] # None

\* C15: an execution goes on to its stop-loss orders only when both of its
\* sells reported success; every stop it has submitted is a reduce-only buy
\* of size 1 that comes after its successful call sell and its successful put
\* sell, and is for the product the matching sell sold.
C15_StopsAfterSells ==
    \A e \in Execs :
        /\ pc[e] = "send_sl" => BothSellsSucceeded(e)
        /\ \A i \in StopsOf(e) :
              /\ i > 2
              /\ BothSellsSucceeded(e)
              /\ orders[e][i].order.side = "buy"
              /\ orders[e][i].order.size = 1
              /\ orders[e][i].order.reduce_only = Some("true")
              /\ orders[e][i].order.product_id = orders[e][i - 2].order.product_id

C15_Witness ==
    /\ \E e \in Execs : Done(e) /\ StopsOf(e) = {3, 4}
    /\ \E e \in Execs :
          /\ Done(e) /\ Len(orders[e]) = 2 /\ StopsOf(e) = {}
          /\ Answered(orders[e][1]) /\ ~Answered(orders[e][2])
          /\ result[e] = SellFailedReport

\* C16: in every step, each key of the ledger stays in the ledger with the
\* record it has; no step replaces or removes a record.
C16_LedgerImmutable ==
    [][\A k \in DOMAIN active_positions :
          /\ k \in DOMAIN active_positions'
          /\ active_positions'[k] = active_positions[k]]_vars

\* C17: an execution submits at most four orders, each of size 1 and each
\* once: the sell of the selected call, the sell of the selected put, the
\* call stop and the put stop, in that order; an order whose request failed
\* is not submitted again.
C17_NoRetryFixedOrder ==
    \A e \in Execs :
        /\ Len(orders[e]) <= 4
        /\ \A i \in 1..Len(orders[e]) :
              /\ atm_pair[e] # None
              /\ orders[e][i].order.size = 1
              /\ orders[e][i].order.product_id = LegOf(e, i).product_id
              /\ i <= 2 => IsSell(orders[e][i])
              /\ i > 2 => IsStop(orders[e][i])
              /\ i < Len(orders[e]) => orders[e][i].answer.kind # "raise"

C17_Witness ==
    /\ \E e \in Execs : Done(e) /\ Len(orders[e]) = 4
    /\ \E e \in Execs :
          /\ Done(e) /\ Len(orders[e]) = 1
          /\ orders[e][1].answer.kind = "raise"
          /\ raised[e] = "RequestException"

\* execution e returns its report in this step
Returns(e) == pc[e] # "done" /\ pc'[e] = "done"

\* C18: an execution has written to the ledger exactly when it has returned
\* the success summary; the step in which an execution returns a decline or
\* a failure message leaves the ledger unchanged, whatever it has sold; and
\* the step in which it returns the summary puts into the ledger a record
\* whose call and put order ids are the ids its own two sells were answered
\* with.
C18_LedgerIffSummary ==
    /\ [](\A e \in Execs :
            /\ (written[e] # None) <=> (Done(e) /\ result[e].kind = "summary")
            /\ written[e] # None
               => /\ written[e][1].call_order_id = orders[e][1].answer.result[1].id
                  /\ written[e][1].put_order_id = orders[e][2].answer.result[1].id)
    /\ [][\A e \in Execs :
            Returns(e)
            => IF result'[e].kind = "summary"
               THEN /\ position_id'[e] # None
                    /\ position_id'[e][1] \in DOMAIN active_positions'
                    /\ active_positions'[position_id'[e][1]] = written'[e][1]
                    /\ active_positions'[position_id'[e][1]].call_order_id
                         = orders'[e][1].answer.result[1].id
                    /\ active_positions'[position_id'[e][1]].put_order_id
                         = orders'[e][2].answer.result[1].id
               ELSE active_positions' = active_positions]_vars

C18_Witness ==
    /\ \E e \in Execs :
          /\ Done(e) /\ result[e].kind = "summary"
          /\ position_id[e][1] \in DOMAIN active_positions
    /\ \E e \in Execs :
          /\ Done(e) /\ result[e].kind = "error" /\ BothSellsSucceeded(e)
          /\ written[e] = None

====
